---- MODULE Spec2Model ----
(***************************************************************************)
(* Model of the Instagram MCP server (src/instagram-mcp.py) and of the     *)
(* bearer-token generator (src/generate_token.py).                         *)
(*                                                                         *)
(* A Python str is a sequence of pieces (single characters where the code  *)
(* slices or compares them); an Optional[str] is a record [some, val]      *)
(* with None == [some |-> FALSE].  A JSON value is a tagged record.        *)
(***************************************************************************)
EXTENDS Integers, Sequences, FiniteSets, TLC

VARIABLES env, pc, cfg, app, phase, req, layer, response, gateEvals,
          forwards, appReq, earlier, tool, call, gen

vars == <<env, pc, cfg, app, phase, req, layer, response, gateEvals,
          forwards, appReq, earlier, tool, call, gen>>

serverVars == <<env, pc, cfg, app, phase, req, layer, response, gateEvals,
                forwards, appReq, earlier, tool>>

\* ------------------------------------------------------------------ bounds
\* longest token presented in a header or configured as the credential
MaxTokLen == 2
\* longest token the generator is asked for
MaxLen == 2

\* ------------------------------------------------------- Python primitives
None == [some |-> FALSE, val |-> <<>>]
Str(s) == [some |-> TRUE, val |-> s]

\* truthiness of an Optional[str]: None and "" are falsy
Truthy(x) == x.some /\ x.val # <<>>

\* str.startswith
startswith(s, p) == Len(s) >= Len(p) /\ SubSeq(s, 1, Len(p)) = p

\* s[k:]
SliceFrom(s, k) == SubSeq(s, k + 1, Len(s))

\* os.getenv(name, default)
getenv(e, name, default) == IF e[name].some THEN e[name] ELSE default

\* ---------------------------------------------------------- configuration
TokChars == {"a", "b"}
Tokens == UNION {[1..k -> TokChars] : k \in 0..MaxTokLen}

\* credentials an operator may configure
CredSamples == {<<"a">>, <<"a", "b">>}

EnvNames == {"INSTAGRAM_ACCESS_TOKEN", "INSTAGRAM_ACCOUNT_ID", "HOST_URL",
             "LATEST_API_VERSION", "BEARER_TOKEN"}

EnvValues(name) ==
    {None, Str(<<>>)} \cup
    CASE name = "BEARER_TOKEN" -> {Str(t) : t \in CredSamples}
      [] name = "INSTAGRAM_ACCESS_TOKEN" -> {Str(<<"IGQV">>)}
      [] name = "INSTAGRAM_ACCOUNT_ID" -> {Str(<<"1784">>)}
      [] name = "HOST_URL" -> {Str(<<"graph.instagram.com">>)}
      [] name = "LATEST_API_VERSION" -> {Str(<<"v19.0">>)}

Environments == {e \in [EnvNames -> UNION {EnvValues(n) : n \in EnvNames}] :
                   \A n \in EnvNames : e[n] \in EnvValues(n)}

\* lines 28-34: the module-level reads of the environment
LoadConfig(e) ==
    [INSTAGRAM_ACCESS_TOKEN |-> getenv(e, "INSTAGRAM_ACCESS_TOKEN", None),
     INSTAGRAM_ACCOUNT_ID |-> getenv(e, "INSTAGRAM_ACCOUNT_ID", None),
     HOST_URL |-> getenv(e, "HOST_URL", Str(<<"graph.facebook.com">>)),
     LATEST_API_VERSION |-> getenv(e, "LATEST_API_VERSION", Str(<<"v21.0">>)),
     BEARER_TOKEN |-> getenv(e, "BEARER_TOKEN", None)]

\* lines 37-42: the three raise ValueError checks
ValidConfig(c) ==
    /\ Truthy(c.INSTAGRAM_ACCESS_TOKEN)
    /\ Truthy(c.INSTAGRAM_ACCOUNT_ID)
    /\ Truthy(c.BEARER_TOKEN)

NoConfig == [INSTAGRAM_ACCESS_TOKEN |-> None, INSTAGRAM_ACCOUNT_ID |-> None,
             HOST_URL |-> None, LATEST_API_VERSION |-> None,
             BEARER_TOKEN |-> None]

\* ------------------------------------------------------------- Auth Gate
BearerPrefix == <<"B", "e", "a", "r", "e", "r", " ">>

AllowList == {"/health", "/ping"}

HTTP_401_UNAUTHORIZED == 401

JSONResponse(status_code, content) ==
    [status_code |-> status_code, content |-> content]

MissingBody == [error |-> "Missing Authorization header"]
FormatBody == [error |-> "Invalid authorization format. Use 'Bearer <token>'"]
InvalidBody == [error |-> "Invalid Bearer token"]

\* the prefix removed one character short: authorization[6:]
ExtractToken_short(authorization) == SliceFrom(authorization, 6)

\* line 231: token = authorization[7:]
ExtractToken(authorization) == SliceFrom(authorization, 7)

\* the scheme test without the trailing space: startswith("Bearer")
IsBearer_nospace(authorization) ==
    startswith(authorization, <<"B", "e", "a", "r", "e", "r">>)

\* line 224: authorization.startswith("Bearer ")
IsBearer(authorization) == startswith(authorization, BearerPrefix)

\* line 217: not authorization
HeaderMissing(authorization) == ~Truthy(authorization)

\* BearerTokenMiddleware.__init__
BearerTokenMiddleware(bearer_token) == [bearer_token |-> bearer_token]

\* dispatch that validates a header only when one is present
dispatch_optional(self, request) ==
    IF request.path \in AllowList
      THEN [call_next |-> TRUE, request |-> request]
    ELSE IF HeaderMissing(request.authorization)
      THEN [call_next |-> TRUE, request |-> request]
    ELSE IF ~IsBearer(request.authorization.val)
      THEN [call_next |-> FALSE,
            response |-> JSONResponse(HTTP_401_UNAUTHORIZED, FormatBody)]
    ELSE IF ExtractToken(request.authorization.val) # self.bearer_token.val
      THEN [call_next |-> FALSE,
            response |-> JSONResponse(HTTP_401_UNAUTHORIZED, InvalidBody)]
    ELSE [call_next |-> TRUE, request |-> request]

\* BearerTokenMiddleware.dispatch: either call_next(request) or a response
dispatch(self, request) ==
    IF request.path \in AllowList
      THEN [call_next |-> TRUE, request |-> request]
    ELSE IF HeaderMissing(request.authorization)
      THEN [call_next |-> FALSE,
            response |-> JSONResponse(HTTP_401_UNAUTHORIZED, MissingBody)]
    ELSE IF ~IsBearer(request.authorization.val)
      THEN [call_next |-> FALSE,
            response |-> JSONResponse(HTTP_401_UNAUTHORIZED, FormatBody)]
    ELSE IF ExtractToken(request.authorization.val) # self.bearer_token.val
      THEN [call_next |-> FALSE,
            response |-> JSONResponse(HTTP_401_UNAUTHORIZED, InvalidBody)]
    ELSE [call_next |-> TRUE, request |-> request]

\* create_starlette_app: two routes and one BearerTokenMiddleware
create_starlette_app(c) ==
    [routes |-> {"/sse", "/messages/"},
     user_middleware |-> <<BearerTokenMiddleware(c.BEARER_TOKEN)>>]

\* Starlette.add_middleware: insert at the front of the stack
add_middleware(a, mw) ==
    [a EXCEPT !.user_middleware = <<mw>> \o a.user_middleware]

NoApp == [routes |-> {}, user_middleware |-> <<>>]

\* ------------------------------------------------------- inbound requests
Paths == {"/health", "/ping", "/sse", "/messages/", "/other"}

Schemes == {BearerPrefix,
            <<"b", "e", "a", "r", "e", "r", " ">>,
            <<"B", "e", "a", "r", "e", "r">>,
            <<"B", "a", "s", "i", "c", " ">>,
            <<"B", "e", "a", "r", "e", "r", "_">>}

Headers == {None} \cup {Str(<<>>)} \cup
           {Str(s \o t) : s \in Schemes, t \in Tokens}

NoReq == [path |-> "", authorization |-> None]
NoResponse == [status_code |-> 0, content |-> [none |-> TRUE]]

\* ------------------------------------------------------------ JSON values
JNull == [t |-> "null"]
JBool(b) == [t |-> "bool", v |-> b]
JNum(n) == [t |-> "num", v |-> n]
JStr(s) == [t |-> "str", v |-> s]
JList(l) == [t |-> "list", v |-> l]
JDict(f) == [t |-> "dict", v |-> f]

EmptyDict == JDict(<<>>)

\* the characters of a dictionary key, for the str and list cases of "in"
KeyChars(key) ==
    CASE key = "id" -> <<"i", "d">>
      [] key = "error" -> <<"e", "r", "r", "o", "r">>
      [] key = "data" -> <<"d", "a", "t", "a">>

\* Python truthiness of a parsed JSON value
JTruthy(x) ==
    CASE x.t = "null" -> FALSE
      [] x.t = "bool" -> x.v
      [] x.t = "num" -> x.v # 0
      [] x.t = "str" -> x.v # <<>>
      [] x.t = "list" -> x.v # <<>>
      [] x.t = "dict" -> DOMAIN x.v # {}

\* `key in x` raises TypeError when x is not a container
InRaises(x) == x.t \in {"null", "bool", "num"}

\* `key in x`: dict membership, list element equality, substring of a str
In(key, x) ==
    CASE x.t = "dict" -> key \in DOMAIN x.v
      [] x.t = "list" -> \E i \in 1..Len(x.v) : x.v[i] = JStr(KeyChars(key))
      [] x.t = "str" -> \E i \in 0..(Len(x.v) - Len(KeyChars(key))) :
                           SubSeq(x.v, i + 1, i + Len(KeyChars(key))) = KeyChars(key)
      [] OTHER -> FALSE

\* `x[key]` with a str key raises TypeError on a str or a list
SubscriptRaises(x) == x.t # "dict"

\* bodies an upstream can send
JSONSamples ==
    {JNull, JBool(TRUE), JBool(FALSE), JNum(0), JNum(5),
     JStr(<<>>), JStr(<<"o", "k">>), JStr(<<"i", "d", "7">>),
     JStr(<<"d", "a", "t", "a">>), JStr(<<"e", "r", "r", "o", "r">>),
     JList(<<>>), JList(<<JStr(<<"i", "d">>)>>), JList(<<JNum(1)>>),
     EmptyDict,
     JDict([id |-> JStr(<<"1", "2", "3">>)]),
     JDict([error |-> JDict([message |-> JStr(<<"bad">>)])]),
     JDict([data |-> JList(<<>>)]),
     JDict([access_token |-> JStr(<<"new">>)]),
     JDict([id |-> JNum(9), error |-> JStr(<<"warn">>)])}

Bodies == {[parseable |-> FALSE, value |-> JNull]} \cup
          {[parseable |-> TRUE, value |-> j] : j \in JSONSamples}

StatusSamples == {200, 201, 302, 404, 500}

\* what the outbound dependency does with one call
Upstreams == {[kind |-> "network_failure"], [kind |-> "timeout"]} \cup
             {[kind |-> "http", status |-> s, body |-> b] :
                 s \in {200, 201}, b \in Bodies} \cup
             {[kind |-> "http", status |-> s,
               body |-> [parseable |-> TRUE,
                         value |-> JDict([id |-> JStr(<<"1", "2", "3">>)])]] :
                 s \in StatusSamples}

\* ------------------------------------------------- Outbound Call Executor
\* the client call of lines 56-62; an unknown method performs none
SentRequests(url, method, data, json_data) ==
    LET headers == IF JTruthy(json_data) THEN {"User-Agent", "Accept", "Content-Type"}
                   ELSE {"User-Agent", "Accept"}
    IN IF method = "GET"
         THEN <<[method |-> "GET", url |-> url, headers |-> headers,
                 body |-> "none", payload |-> JNull]>>
       ELSE IF method = "POST"
         THEN IF JTruthy(json_data)
                THEN <<[method |-> "POST", url |-> url, headers |-> headers,
                        body |-> "json", payload |-> json_data]>>
                ELSE <<[method |-> "POST", url |-> url, headers |-> headers,
                        body |-> "form", payload |-> data]>>
       ELSE <<>>

\* response.raise_for_status(): every status outside 2xx raises
RaisesForStatus(status) == status < 200 \/ status > 299

\* the body of the try block: a value, or the exception it raises
TryBody(method, upstream) ==
    IF method \notin {"GET", "POST"}
      THEN [raised |-> TRUE, exc |-> "UnboundLocalError", base |-> "Exception"]
    ELSE IF upstream.kind = "network_failure"
      THEN [raised |-> TRUE, exc |-> "ConnectError", base |-> "Exception"]
    ELSE IF upstream.kind = "timeout"
      THEN [raised |-> TRUE, exc |-> "ReadTimeout", base |-> "Exception"]
    ELSE IF RaisesForStatus(upstream.status)
      THEN [raised |-> TRUE, exc |-> "HTTPStatusError", base |-> "Exception"]
    ELSE IF ~upstream.body.parseable
      THEN [raised |-> TRUE, exc |-> "JSONDecodeError", base |-> "Exception"]
    ELSE [raised |-> FALSE, value |-> upstream.body.value]

\* an except clause that names only the HTTP client's errors
Caught_httpOnly(e) == e.exc \in {"ConnectError", "ReadTimeout", "HTTPStatusError"}

\* line 66: except Exception
Caught(e) == e.base = "Exception"

\* make_instagram_request: the outcome, the calls made, and whether it raised
make_instagram_request(url, method, data, json_data, upstream) ==
    LET r == TryBody(method, upstream)
        sent == SentRequests(url, method, data, json_data)
    IN IF ~r.raised
         THEN [raised |-> FALSE, result |-> r.value, requests |-> sent]
       ELSE IF Caught(r)
         THEN [raised |-> FALSE, result |-> JDict([error |-> JStr(<<r.exc>>)]),
               requests |-> sent]
       ELSE [raised |-> TRUE, result |-> JNull, requests |-> sent]

\* ----------------------------------------------------- Operation Handlers
Returned(text, arg) == [status |-> "returned", text |-> text, arg |-> arg]
Raised(exc) == [status |-> "raised", exc |-> exc]

\* the error test inverted: `if result and "error" in result`
IfNoError_inverted(result, ok, fail) ==
    IF ~JTruthy(result) THEN Returned(fail, result)
    ELSE IF InRaises(result) THEN Raised("TypeError")
    ELSE IF In("error", result) THEN Returned(ok, result)
    ELSE Returned(fail, result)

\* `if result and "error" not in result: return ok else: return fail`
IfNoError(result, ok, fail) ==
    IF ~JTruthy(result) THEN Returned(fail, result)
    ELSE IF InRaises(result) THEN Raised("TypeError")
    ELSE IF ~In("error", result) THEN Returned(ok, result)
    ELSE Returned(fail, result)

\* `if result and key in result: return ok + result[key] else: return fail`
IfKeyThenItem(result, key, ok, fail) ==
    IF ~JTruthy(result) THEN Returned(fail, result)
    ELSE IF InRaises(result) THEN Raised("TypeError")
    ELSE IF In(key, result)
      THEN IF SubscriptRaises(result) THEN Raised("TypeError")
           ELSE Returned(ok, result.v[key])
    ELSE Returned(fail, result)

\* a handler's run: the executor's record plus what the handler hands back
Handled(r, outcome) ==
    [requests |-> r.requests, result |-> r.result,
     outcome |-> IF r.raised THEN Raised("Exception") ELSE outcome]

BaseUrl(c) == <<"https://">> \o c.HOST_URL.val \o <<"/">> \o c.LATEST_API_VERSION.val

refresh_instagram_access_token(c, upstream) ==
    LET url == BaseUrl(c) \o
               <<"/refresh_access_token?grant_type=ig_refresh_token&access_token=">> \o
               c.INSTAGRAM_ACCESS_TOKEN.val
        r == make_instagram_request(url, "GET", JNull, JNull, upstream)
    IN Handled(r, IfNoError(r.result, "Access token refreshed successfully: ",
                            "Failed to refresh access token: "))

upload_image_without_caption(c, image_url, upstream) ==
    LET url == BaseUrl(c) \o <<"/">> \o c.INSTAGRAM_ACCOUNT_ID.val \o <<"/media">>
        json_data == JDict([image_url |-> JStr(image_url),
                            access_token |-> JStr(c.INSTAGRAM_ACCESS_TOKEN.val)])
        r == make_instagram_request(url, "POST", JNull, json_data, upstream)
    IN Handled(r, IfKeyThenItem(r.result, "id",
                                "Image uploaded successfully. Media ID: ",
                                "Failed to upload image: "))

upload_image_with_caption(c, image_url, caption, upstream) ==
    LET url == BaseUrl(c) \o <<"/">> \o c.INSTAGRAM_ACCOUNT_ID.val \o <<"/media">>
        data == JDict([image_url |-> JStr(image_url), caption |-> JStr(caption),
                       access_token |-> JStr(c.INSTAGRAM_ACCESS_TOKEN.val)])
        r == make_instagram_request(url, "POST", data, JNull, upstream)
    IN Handled(r, IfKeyThenItem(r.result, "id",
                                "Image with caption uploaded successfully. Media ID: ",
                                "Failed to upload image with caption: "))

upload_carousel_post(c, caption, children_ids, upstream) ==
    LET url == BaseUrl(c) \o <<"/">> \o c.INSTAGRAM_ACCOUNT_ID.val \o <<"/media">>
        json_data == JDict([caption |-> JStr(caption), media_type |-> JStr(<<"CAROUSEL">>),
                            children |-> JList(children_ids),
                            access_token |-> JStr(c.INSTAGRAM_ACCESS_TOKEN.val)])
        r == make_instagram_request(url, "POST", JNull, json_data, upstream)
    IN Handled(r, IfKeyThenItem(r.result, "id",
                                "Carousel post uploaded successfully. Media ID: ",
                                "Failed to upload carousel post: "))

publish_media_container(c, media_id, upstream) ==
    LET url == BaseUrl(c) \o <<"/">> \o c.INSTAGRAM_ACCOUNT_ID.val \o <<"/media_publish">>
        data == JDict([creation_id |-> JStr(media_id),
                       access_token |-> JStr(c.INSTAGRAM_ACCESS_TOKEN.val)])
        r == make_instagram_request(url, "POST", data, JNull, upstream)
    IN Handled(r, IfKeyThenItem(r.result, "id",
                                "Media published successfully. Post ID: ",
                                "Failed to publish media: "))

get_instagram_account_info(c, upstream) ==
    LET url == BaseUrl(c) \o <<"/">> \o c.INSTAGRAM_ACCOUNT_ID.val \o
               <<"?fields=account_type,media_count,followers_count&access_token=">> \o
               c.INSTAGRAM_ACCESS_TOKEN.val
        r == make_instagram_request(url, "GET", JNull, JNull, upstream)
    IN Handled(r, IfNoError(r.result, "Account Info: ",
                            "Failed to get account info: "))

get_recent_media(c, limit, upstream) ==
    LET url == BaseUrl(c) \o <<"/">> \o c.INSTAGRAM_ACCOUNT_ID.val \o
               <<"/media?fields=id,caption,media_type,media_url,timestamp,permalink&limit=">> \o
               <<ToString(limit)>> \o <<"&access_token=">> \o c.INSTAGRAM_ACCESS_TOKEN.val
        r == make_instagram_request(url, "GET", JNull, JNull, upstream)
    IN Handled(r, IfKeyThenItem(r.result, "data", "Recent Media: ",
                                "Failed to get recent media: "))

\* the tool catalog registered with @mcp.tool()
Tools == {"refresh_instagram_access_token", "upload_image_without_caption",
          "upload_image_with_caption", "upload_carousel_post",
          "publish_media_container", "get_instagram_account_info",
          "get_recent_media"}

\* arguments a caller may pass
ArgSamples ==
    {[image_url |-> <<"https://img/1.jpg">>, caption |-> <<>>,
      children_ids |-> <<>>, media_id |-> <<"17">>, limit |-> 10],
     [image_url |-> <<>>, caption |-> <<"hi">>,
      children_ids |-> <<JStr(<<"17">>), JStr(<<"18">>)>>, media_id |-> <<>>, limit |-> 5]}

\* protocol-layer dispatch from tool name to handler
CallTool(name, c, a, upstream) ==
    CASE name = "refresh_instagram_access_token" ->
           refresh_instagram_access_token(c, upstream)
      [] name = "upload_image_without_caption" ->
           upload_image_without_caption(c, a.image_url, upstream)
      [] name = "upload_image_with_caption" ->
           upload_image_with_caption(c, a.image_url, a.caption, upstream)
      [] name = "upload_carousel_post" ->
           upload_carousel_post(c, a.caption, a.children_ids, upstream)
      [] name = "publish_media_container" ->
           publish_media_container(c, a.media_id, upstream)
      [] name = "get_instagram_account_info" ->
           get_instagram_account_info(c, upstream)
      [] name = "get_recent_media" ->
           get_recent_media(c, a.limit, upstream)

NoTool == [name |-> "", requests |-> <<>>, result |-> JNull,
           outcome |-> [status |-> "none"]]

\* --------------------------------------------------------- token generator
\* string.ascii_letters + string.digits + "-_"
alphabet ==
    <<"a", "b", "c", "d", "e", "f", "g", "h", "i", "j", "k", "l", "m",
      "n", "o", "p", "q", "r", "s", "t", "u", "v", "w", "x", "y", "z",
      "A", "B", "C", "D", "E", "F", "G", "H", "I", "J", "K", "L", "M",
      "N", "O", "P", "Q", "R", "S", "T", "U", "V", "W", "X", "Y", "Z",
      "0", "1", "2", "3", "4", "5", "6", "7", "8", "9", "-", "_">>

HexDigits == <<"0", "1", "2", "3", "4", "5", "6", "7",
               "8", "9", "a", "b", "c", "d", "e", "f">>

\* values secrets.randbelow(len(alphabet)) is drawn from in the model
RandSamples == {0, 25, 26, 51, 52, 61, 62, 63}

\* values of one byte of secrets.token_bytes in the model
ByteSamples == {0, 9, 10, 15, 16, 171, 255}

\* secrets.choice(seq) with the random index drawn
choice(seq, r) == seq[r + 1]

\* one character short: range(length - 1)
generate_bearer_token_short(length, draws) ==
    [i \in 1..(length - 1) |-> choice(alphabet, draws[i])]

\* ''.join(secrets.choice(alphabet) for _ in range(length))
generate_bearer_token(length, draws) ==
    [i \in 1..length |-> choice(alphabet, draws[i])]

\* binascii.hexlify(token_bytes(nbytes)).decode('ascii')
token_hex(nbytes, bytes) ==
    [k \in 1..(2 * nbytes) |->
        IF k % 2 = 1 THEN HexDigits[(bytes[(k + 1) \div 2] \div 16) + 1]
        ELSE HexDigits[(bytes[k \div 2] % 16) + 1]]

\* return secrets.token_hex(length)
generate_hex_token(length, bytes) == token_hex(length, bytes)

NoGen == [fn |-> "", length |-> 0, out |-> <<>>]

\* ------------------------------------------------------------------ state
Methods == {"GET", "POST", "PUT", "DELETE", "get"}

DataSamples == {JNull, EmptyDict, JDict([creation_id |-> JStr(<<"17">>)])}

UrlSamples == {<<"https://graph.facebook.com/v21.0/1784/media">>}

NoCall == [method |-> "", data |-> JNull, json_data |-> JNull,
           upstream |-> [kind |-> "none"], raised |-> FALSE,
           result |-> JNull, requests |-> <<>>]

ServerInit ==
    /\ pc = "start"
    /\ cfg = NoConfig
    /\ app = NoApp
    /\ phase = "idle"
    /\ req = NoReq
    /\ layer = 0
    /\ response = NoResponse
    /\ gateEvals = 0
    /\ forwards = 0
    /\ appReq = NoReq
    /\ earlier = FALSE
    /\ tool = NoTool

Init ==
    /\ env \in Environments
    /\ ServerInit
    /\ call = NoCall
    /\ gen = NoGen

\* --------------------------------------------------------------- startup
\* lines 22-42: load the environment, raise ValueError on a missing value
ImportModule ==
    /\ pc = "start"
    /\ cfg' = LoadConfig(env)
    /\ pc' = IF ValidConfig(LoadConfig(env)) THEN "imported" ELSE "aborted"
    /\ UNCHANGED <<env, app, phase, req, layer, response, gateEvals, forwards,
                   appReq, earlier, tool, call, gen>>

\* lines 271-304: build the app, add the middleware, uvicorn.run
Main ==
    /\ pc = "imported"
    /\ app' = add_middleware(create_starlette_app(cfg),
                             BearerTokenMiddleware(cfg.BEARER_TOKEN))
    /\ pc' = "listening"
    /\ UNCHANGED <<env, cfg, phase, req, layer, response, gateEvals, forwards,
                   appReq, earlier, tool, call, gen>>

\* -------------------------------------------------------- request handling
ReachedApp == phase \in {"app", "done"} /\ layer > Len(app.user_middleware)

\* the server accepts one inbound request
Receive(path, authorization) ==
    /\ pc = "listening"
    /\ phase \in {"idle", "done"}
    /\ req' = [path |-> path, authorization |-> authorization]
    /\ phase' = "gate"
    /\ layer' = 1
    /\ response' = NoResponse
    /\ gateEvals' = 0
    /\ forwards' = 0
    /\ appReq' = NoReq
    /\ tool' = NoTool
    /\ earlier' = (earlier \/ ReachedApp)
    /\ UNCHANGED <<env, pc, cfg, app, call, gen>>

\* one middleware of the stack runs dispatch on the request handed to it
Gate ==
    /\ phase = "gate"
    /\ LET r == IF layer = 1 THEN req ELSE appReq
           d == dispatch(app.user_middleware[layer], r)
       IN /\ gateEvals' = gateEvals + 1
          /\ IF d.call_next
               THEN /\ forwards' = forwards + 1
                    /\ appReq' = d.request
                    /\ layer' = layer + 1
                    /\ phase' = IF layer + 1 > Len(app.user_middleware)
                                THEN "app" ELSE "gate"
                    /\ UNCHANGED response
               ELSE /\ response' = d.response
                    /\ phase' = "done"
                    /\ UNCHANGED <<forwards, appReq, layer>>
    /\ UNCHANGED <<env, pc, cfg, app, req, earlier, tool, call, gen>>

\* the routes of create_starlette_app answer a request that passed the stack
Route ==
    /\ phase = "app"
    /\ response' = IF appReq.path = "/sse"
                     THEN [status_code |-> 200, content |-> [stream |-> "sse"]]
                   ELSE IF appReq.path = "/messages/"
                     THEN [status_code |-> 202, content |-> [accepted |-> TRUE]]
                   ELSE [status_code |-> 404, content |-> [detail |-> "Not Found"]]
    /\ phase' = "done"
    /\ UNCHANGED <<env, pc, cfg, app, req, layer, gateEvals, forwards, appReq,
                   earlier, tool, call, gen>>

\* a posted message calls one tool of the catalog
InvokeTool(name, a, upstream) ==
    /\ phase = "done"
    /\ ReachedApp
    /\ appReq.path = "/messages/"
    /\ tool = NoTool
    /\ tool' = [name |-> name] @@ CallTool(name, cfg, a, upstream)
    /\ UNCHANGED <<env, pc, cfg, app, phase, req, layer, response, gateEvals,
                   forwards, appReq, earlier, call, gen>>

Next ==
    \/ ImportModule
    \/ Main
    \/ \E p \in Paths, h \in Headers : Receive(p, h)
    \/ Gate
    \/ Route
    \/ \E n \in Tools, a \in ArgSamples, u \in Upstreams : InvokeTool(n, a, u)

Spec == Init /\ [][Next]_vars

\* ------------------------------------------- executor applied to its inputs
InitExec ==
    /\ env = [n \in EnvNames |-> None]
    /\ ServerInit
    /\ call = NoCall
    /\ gen = NoGen

Execute(url, method, data, json_data, upstream) ==
    /\ call = NoCall
    /\ call' = [method |-> method, data |-> data, json_data |-> json_data,
                upstream |-> upstream] @@
               make_instagram_request(url, method, data, json_data, upstream)
    /\ UNCHANGED <<serverVars, gen>>

\* the caller takes the outcome
Return ==
    /\ call # NoCall
    /\ call' = NoCall
    /\ UNCHANGED <<serverVars, gen>>

NextExec ==
    \/ \E url \in UrlSamples, m \in Methods, d \in DataSamples, j \in DataSamples,
          u \in Upstreams : Execute(url, m, d, j, u)
    \/ Return

SpecExec == InitExec /\ [][NextExec]_vars

\* ------------------------------------------ generator applied to its inputs
InitToken ==
    /\ env = [n \in EnvNames |-> None]
    /\ ServerInit
    /\ call = NoCall
    /\ gen = NoGen

BearerToken(length) ==
    /\ \E draws \in [1..length -> RandSamples] :
         gen' = [fn |-> "generate_bearer_token", length |-> length,
                 out |-> generate_bearer_token(length, draws)]
    /\ UNCHANGED <<serverVars, call>>

HexToken(length) ==
    /\ \E bytes \in [1..length -> ByteSamples] :
         gen' = [fn |-> "generate_hex_token", length |-> length,
                 out |-> generate_hex_token(length, bytes)]
    /\ UNCHANGED <<serverVars, call>>

NextToken ==
    \/ \E n \in 0..MaxLen : BearerToken(n)
    \/ \E n \in 0..MaxLen : HexToken(n)

SpecToken == InitToken /\ [][NextToken]_vars

\* ================================================================= claims
Credential == cfg.BEARER_TOKEN.val

\* the request carries exactly "Bearer " followed by the configured Credential
Authorized(r) ==
    r.authorization.some /\ r.authorization.val = BearerPrefix \o Credential

Gated == phase # "idle" /\ req.path \notin AllowList

Range(s) == {s[i] : i \in 1..Len(s)}

\* C1: a request to a path outside the allow-list whose Authorization header
\* is absent, malformed or carries another token is never passed to
\* call_next, never reaches the routes or a tool, and is answered 401 with a
\* JSON error body, whatever earlier requests presented.
C1_UnauthenticatedNeverForwarded ==
    (Gated /\ ~Authorized(req)) =>
        /\ forwards = 0
        /\ appReq = NoReq
        /\ ~ReachedApp
        /\ tool = NoTool
        /\ phase = "done" =>
              /\ response.status_code = 401
              /\ DOMAIN response.content = {"error"}

\* C1 witness: after an earlier request was let through, a request with a
\* wrong token to /messages/ has been answered 401.
C1_Witness ==
    /\ phase = "done"
    /\ earlier
    /\ req.path = "/messages/"
    /\ req.authorization.some
    /\ IsBearer(req.authorization.val)
    /\ ~Authorized(req)
    /\ response.status_code = 401

\* C2: for a header "Bearer " + tok on a gated path the original request
\* reaches the next stage unmodified exactly when tok equals the Credential,
\* and every other tok is answered 401 with the invalid-token body.
C2_ForwardIffExactToken ==
    \A tok \in Tokens :
        (phase = "done" /\ req.path \notin AllowList
           /\ req.authorization = Str(BearerPrefix \o tok)) =>
            /\ (ReachedApp /\ appReq = req /\ forwards >= 1) <=> (tok = Credential)
            /\ (tok # Credential) =>
                  response = JSONResponse(HTTP_401_UNAUTHORIZED, InvalidBody)

\* C2 witness: the exact Credential was presented on /sse and the request
\* arrived at the routes as it was received.
C2_Witness ==
    /\ phase = "done"
    /\ req.path = "/sse"
    /\ req.authorization = Str(BearerPrefix \o Credential)
    /\ appReq = req
    /\ response.status_code = 200

\* C3 as stated: every present header that does not start with "Bearer ",
\* the empty value included, is answered 401 with the format-error body.
C3_Original ==
    (phase = "done" /\ req.path \notin AllowList /\ req.authorization.some
       /\ ~startswith(req.authorization.val, BearerPrefix)) =>
        response = JSONResponse(HTTP_401_UNAUTHORIZED, FormatBody)

\* C3 amended: a present, non-empty header that does not start with
\* "Bearer " is answered 401 with the format-error body; a header whose
\* value is the empty string is answered 401 with the missing-header body.
C3_FormatError ==
    (phase = "done" /\ req.path \notin AllowList /\ req.authorization.some) =>
        /\ (req.authorization.val # <<>>
              /\ ~startswith(req.authorization.val, BearerPrefix)) =>
               response = JSONResponse(HTTP_401_UNAUTHORIZED, FormatBody)
        /\ (req.authorization.val = <<>>) =>
               response = JSONResponse(HTTP_401_UNAUTHORIZED, MissingBody)

\* C3 witness: "Bearer" without the trailing space got the format error.
C3_Witness ==
    /\ phase = "done"
    /\ req.path = "/sse"
    /\ req.authorization = Str(<<"B", "e", "a", "r", "e", "r">>)
    /\ response = JSONResponse(HTTP_401_UNAUTHORIZED, FormatBody)

\* C4: the server is listening only with the bearer Credential, the access
\* token, the account identifier, the API host and the API version all
\* non-empty.
C4_ListeningOnlyWithFullConfig ==
    (pc = "listening") =>
        /\ Truthy(cfg.BEARER_TOKEN)
        /\ Truthy(cfg.INSTAGRAM_ACCESS_TOKEN)
        /\ Truthy(cfg.INSTAGRAM_ACCOUNT_ID)
        /\ Truthy(cfg.HOST_URL)
        /\ Truthy(cfg.LATEST_API_VERSION)

\* a Failure outcome: {"error": <text>}
IsFailure(r) == r.t = "dict" /\ DOMAIN r.v = {"error"} /\ r.v.error.t = "str"

UpstreamFailed(u) ==
    \/ u.kind \in {"network_failure", "timeout"}
    \/ u.kind = "http" /\ (u.status \notin 200..299 \/ ~u.body.parseable)

\* C5: make_instagram_request never raises; on a network failure, a timeout,
\* a status outside 2xx or an unparseable 2xx body it returns {"error": text}
\* for every method and body arguments; when a call was made and answered
\* 2xx with a parseable body it returns the parsed value verbatim.
C5_ExecutorNeverRaises ==
    (call # NoCall) =>
        /\ ~call.raised
        /\ UpstreamFailed(call.upstream) => IsFailure(call.result)
        /\ (call.requests # <<>> /\ ~UpstreamFailed(call.upstream)) =>
               call.result = call.upstream.body.value

\* C5 witness: a POST answered 200 with a body that is not JSON came back as
\* a Failure outcome.
C5_Witness ==
    /\ call # NoCall
    /\ call.method = "POST"
    /\ call.upstream.kind = "http"
    /\ call.upstream.status = 200
    /\ ~call.upstream.body.parseable
    /\ IsFailure(call.result)

\* C6: every tool invocation completes and returns a string, whatever JSON
\* value the upstream sent.
C6_HandlersNeverRaise ==
    (tool # NoTool) => tool.outcome.status = "returned"

\* C7 as stated: both generators return exactly `length` characters of
\* their alphabet.
C7_Original ==
    /\ (gen.fn = "generate_bearer_token") =>
          Len(gen.out) = gen.length /\ Range(gen.out) \subseteq Range(alphabet)
    /\ (gen.fn = "generate_hex_token") =>
          Len(gen.out) = gen.length /\ Range(gen.out) \subseteq Range(HexDigits)

\* C7 amended: generate_bearer_token(n) returns n characters of letters,
\* digits, '-' and '_'; generate_hex_token(n) returns 2n hexadecimal digits.
C7_TokenLengths ==
    /\ (gen.fn = "generate_bearer_token") =>
          Len(gen.out) = gen.length /\ Range(gen.out) \subseteq Range(alphabet)
    /\ (gen.fn = "generate_hex_token") =>
          Len(gen.out) = 2 * gen.length /\ Range(gen.out) \subseteq Range(HexDigits)

\* C7 witness: a hex token of requested length 2 has 4 characters.
C7_Witness ==
    /\ gen.fn = "generate_hex_token"
    /\ gen.length = 2
    /\ Len(gen.out) = 4

\* C8: the gate check has been evaluated exactly once for every request the
\* server has finished.
C8_GateEvaluatedOnce ==
    (phase = "done") => gateEvals = 1

\* C9: every invocation of make_instagram_request performs exactly one
\* network call, for every method.
C9_ExactlyOneCall ==
    (call # NoCall) => Len(call.requests) = 1

ErrorKeyTools == {"refresh_instagram_access_token", "get_instagram_account_info"}

SuccessText(name) ==
    IF name = "refresh_instagram_access_token"
      THEN "Access token refreshed successfully: "
      ELSE "Account Info: "

FailureText(name) ==
    IF name = "refresh_instagram_access_token"
      THEN "Failed to refresh access token: "
      ELSE "Failed to get account info: "

\* C10 as stated: for refresh-token and get-account-info and every outcome
\* mapping, the empty one included, the success text is returned exactly
\* when the mapping has no "error" key.
C10_Original ==
    (tool.name \in ErrorKeyTools /\ tool.result.t = "dict") =>
        /\ tool.outcome.status = "returned"
        /\ tool.outcome.text \in {SuccessText(tool.name), FailureText(tool.name)}
        /\ (tool.outcome.text = SuccessText(tool.name))
              <=> ("error" \notin DOMAIN tool.result.v)

\* C10 amended: for every outcome mapping the success text is returned
\* exactly when the mapping is non-empty and has no "error" key; the empty
\* mapping, every Failure outcome and every mapping with an "error" key give
\* the failure text.
C10_SuccessIffNonEmptyWithoutError ==
    (tool.name \in ErrorKeyTools /\ tool.result.t = "dict") =>
        /\ tool.outcome.status = "returned"
        /\ tool.outcome.text \in {SuccessText(tool.name), FailureText(tool.name)}
        /\ tool.outcome.arg = tool.result
        /\ (tool.outcome.text = SuccessText(tool.name))
              <=> (DOMAIN tool.result.v # {} /\ "error" \notin DOMAIN tool.result.v)
        /\ IsFailure(tool.result) => tool.outcome.text = FailureText(tool.name)

\* C10 witness: refresh-token answered 200 with {} returned the failure text.
C10_Witness ==
    /\ tool.name = "refresh_instagram_access_token"
    /\ tool.result = EmptyDict
    /\ tool.outcome.status = "returned"
    /\ tool.outcome.text = "Failed to refresh access token: "
====
